---- MODULE Spec2Model ----
(***************************************************************************)
(* Model of the pull-request review pipeline: the Gemini client llm_call   *)
(* (src/agents/llm_client.py), the result normalizer of BaseAgent          *)
(* (src/agents/base_agent.py), the reviewers' review loop                  *)
(* (src/agents/logic_agent.py and its three siblings), the orchestrator    *)
(* and its deduplicator (src/agents/orchestrator.py) and the HTTP entry    *)
(* points that run the orchestrator (src/app.py, src/routes/review.py).    *)
(*                                                                         *)
(* Python strings that the code inspects character by character are        *)
(* sequences of one-character strings; a confidence is kept in tenths      *)
(* (7 is 0.7, 15 is 1.5, -2 is -0.2).                                      *)
(***************************************************************************)
EXTENDS Integers, Sequences, FiniteSets, TLC

VARIABLES
    dd,     \* _deduplicate_comments called on its own: argument and result
    llm,    \* one llm_call: loop position, attempt number, trace of what it did
    nz,     \* one _format_output call: raw response and what came back
    req,    \* one HTTP review request: entry point, batch, producer, reply
    orch,   \* run_agents_on_files of that request: file index, all_comments
    agents, \* the reviewers' review() coroutines of the current file
    pu,     \* one diff handed to parse_unified_diff or to an entry point
    sn      \* one _extract_hunk_snippet call: hunk, max_lines and the snippet

vars == <<dd, llm, nz, req, orch, agents, pu, sn>>

----------------------------------------------------------------------------
(* Strings                                                                 *)

\* ord() of the characters the model uses
CodePoint(c) ==
    CASE c = " " -> 32
      [] c = "-" -> 45
      [] c = "0" -> 48
      [] c = "1" -> 49
      [] c = "2" -> 50
      [] c = "3" -> 51
      [] c = "4" -> 52
      [] c = "5" -> 53
      [] c = "6" -> 54
      [] c = "7" -> 55
      [] c = "8" -> 56
      [] c = "9" -> 57
      [] c = ":" -> 58
      [] c = "X" -> 88
      [] c = "Y" -> 89
      [] c = "a" -> 97
      [] c = "b" -> 98
      [] c = "x" -> 120
      [] c = "y" -> 121

\* str.lower()
Lower(s) ==
    [i \in 1..Len(s) |->
        CASE s[i] = "X" -> "x"
          [] s[i] = "Y" -> "y"
          [] OTHER -> s[i]]

IsSpace(c) == c = " "

RECURSIVE LStrip(_)
LStrip(s) ==
    IF s # <<>> /\ IsSpace(Head(s)) THEN LStrip(Tail(s)) ELSE s

RECURSIVE RStrip(_)
RStrip(s) ==
    IF s # <<>> /\ IsSpace(s[Len(s)]) THEN RStrip(SubSeq(s, 1, Len(s) - 1)) ELSE s

\* str.strip()
Strip(s) == RStrip(LStrip(s))

\* s[:n]
Prefix(s, n) == SubSeq(s, 1, IF Len(s) < n THEN Len(s) ELSE n)

Digit(d) == <<"0", "1", "2", "3", "4", "5", "6", "7", "8", "9">>[d + 1]

RECURSIVE NatToStr(_)
NatToStr(n) ==
    IF n < 10 THEN <<Digit(n)>> ELSE NatToStr(n \div 10) \o <<Digit(n % 10)>>

\* str(n) of an int, as an f-string formats it
IntToStr(n) == IF n < 0 THEN <<"-">> \o NatToStr(-n) ELSE NatToStr(n)

\* s < t on Python strings: lexicographic by code point
RECURSIVE StrLess(_, _)
StrLess(s, t) ==
    IF t = <<>> THEN FALSE
    ELSE IF s = <<>> THEN TRUE
    ELSE IF CodePoint(Head(s)) # CodePoint(Head(t))
         THEN CodePoint(Head(s)) < CodePoint(Head(t))
    ELSE StrLess(Tail(s), Tail(t))

----------------------------------------------------------------------------
(* Deduplicator / ranker: src/agents/orchestrator.py                       *)

BodyKeyLen == 200

\* key = f"{path}:{line}:{body_key}" with body_key = body[:200].strip().lower()
DedupKey(comment) ==
    comment.path \o <<":">> \o IntToStr(comment.line) \o <<":">>
        \o Lower(Strip(Prefix(comment.body, BodyKeyLen)))

\* index of key in the insertion-ordered dict `seen`, 0 when absent
SeenIndex(seen, key) ==
    IF \E i \in 1..Len(seen) : seen[i].key = key
    THEN CHOOSE i \in 1..Len(seen) : seen[i].key = key
    ELSE 0

\* `if new_confidence > existing_confidence`
ReplacesMutGE(new_confidence, existing_confidence) ==
    new_confidence >= existing_confidence

Replaces(new_confidence, existing_confidence) ==
    new_confidence > existing_confidence

\* a dict that keeps a tidied copy of the finding
StoredMutTrimmed(comment) == [comment EXCEPT !.body = Strip(@)]

\* `seen[key] = comment`: the value stored is the finding itself
Stored(comment) == comment

\* the `for comment in comments` loop: a dict keeps the position of a key's
\* first insertion when the value is overwritten
RECURSIVE DedupLoop(_, _)
DedupLoop(comments, seen) ==
    IF comments = <<>> THEN seen
    ELSE LET comment == Head(comments)
             key == DedupKey(comment)
             i == SeenIndex(seen, key)
         IN  IF i # 0
             THEN IF Replaces(comment.confidence, seen[i].comment.confidence)
                  THEN DedupLoop(Tail(comments),
                                 [seen EXCEPT ![i] = [key |-> key, comment |-> Stored(comment)]])
                  ELSE DedupLoop(Tail(comments), seen)
             ELSE DedupLoop(Tail(comments),
                            Append(seen, [key |-> key, comment |-> Stored(comment)]))

\* the sort key (path, line) compared as Python compares tuples
SortKeyLess(x, y) ==
    \/ StrLess(x.path, y.path)
    \/ x.path = y.path /\ x.line < y.line

\* insertion of x into a sorted list behind every element not greater than it
RECURSIVE InsertSorted(_, _)
InsertSorted(sorted, x) ==
    IF sorted = <<>> THEN <<x>>
    ELSE IF SortKeyLess(x, Head(sorted)) THEN <<x>> \o sorted
    ELSE <<Head(sorted)>> \o InsertSorted(Tail(sorted), x)

RECURSIVE StableSort(_)
StableSort(list) ==
    IF list = <<>> THEN <<>>
    ELSE InsertSorted(StableSort(SubSeq(list, 1, Len(list) - 1)), list[Len(list)])

SortCommentsMutNoSort(list) == list

\* deduplicated.sort(key=lambda x: (x.get("path", ""), x.get("line", 0)))
SortComments(list) == StableSort(list)

\* " ".join(words) over text.split(): the words with one blank between them
RECURSIVE JoinWords(_)
JoinWords(s) ==
    IF s = <<>> THEN <<>>
    ELSE IF IsSpace(Head(s))
         THEN (IF LStrip(s) = <<>> THEN <<>> ELSE <<" ">> \o JoinWords(LStrip(s)))
    ELSE <<Head(s)>> \o JoinWords(Tail(s))

\* _normalize_text(text) = " ".join(text.lower().split()); nothing calls it
_normalize_text(text) == JoinWords(Lower(LStrip(text)))

_deduplicate_comments(comments) ==
    IF comments = <<>> THEN <<>>
    ELSE LET seen == DedupLoop(comments, <<>>)
             deduplicated == [i \in 1..Len(seen) |-> seen[i].comment]
         IN  SortComments(deduplicated)

----------------------------------------------------------------------------
(* Result normalizer: src/agents/base_agent.py                             *)
(*                                                                         *)
(* A producer response is kept as what json.loads makes of it.  A value    *)
(* of an object's field is [t, s, n]: t is "absent" (no such key), "null", *)
(* "list", "str" (text s) or "num" (number n; a confidence in tenths).     *)

SideNew == <<"n", "e", "w">>
SideOld == <<"o", "l", "d">>

JAbsent == [t |-> "absent", s |-> <<>>, n |-> 0]
JNull == [t |-> "null", s |-> <<>>, n |-> 0]
JList == [t |-> "list", s |-> <<>>, n |-> 0]
JStr(s) == [t |-> "str", s |-> s, n |-> 0]
JNum(n) == [t |-> "num", s |-> <<>>, n |-> n]

\* item[key]-like lookup that hands back the missing value itself
GetMutNoDefault(v, default) == v

\* dict.get(key, default)
Get(v, default) == IF v.t = "absent" THEN default ELSE v

IsDigits(s) == s # <<>> /\ \A i \in 1..Len(s) : CodePoint(s[i]) \in 48..57

RECURSIVE StrToNat(_)
StrToNat(s) ==
    IF s = <<>> THEN 0
    ELSE 10 * StrToNat(SubSeq(s, 1, Len(s) - 1)) + (CodePoint(s[Len(s)]) - 48)

\* int(x): a number as it is, a string of digits parsed, other text a
\* ValueError, None or a list a TypeError
PyInt(v) ==
    CASE v.t = "num" -> [exc |-> "none", n |-> v.n]
      [] v.t = "str" -> IF IsDigits(Strip(v.s))
                        THEN [exc |-> "none", n |-> StrToNat(Strip(v.s))]
                        ELSE [exc |-> "ValueError", n |-> 0]
      [] OTHER -> [exc |-> "TypeError", n |-> 0]

\* float(x), in tenths
PyFloat(v) ==
    CASE v.t = "num" -> [exc |-> "none", n |-> v.n]
      [] v.t = "str" -> IF IsDigits(Strip(v.s))
                        THEN [exc |-> "none", n |-> 10 * StrToNat(Strip(v.s))]
                        ELSE [exc |-> "ValueError", n |-> 0]
      [] OTHER -> [exc |-> "TypeError", n |-> 0]

\* x.strip(): only a str has the method
PyStrip(v) ==
    IF v.t = "str" THEN [exc |-> "none", s |-> Strip(v.s)]
    ELSE [exc |-> "AttributeError", s |-> <<>>]

StrictDefaultConfidence == 7
FallbackDefaultConfidence == 5

NoComment ==
    [path |-> <<>>, line |-> 0, side |-> <<>>, category |-> <<>>,
     confidence |-> 0, body |-> <<>>]

\* the dict display {"path": ..., "line": int(...), ..., "body": ....strip()}:
\* its values are evaluated in this order and the first exception ends it
BuildComment(item, file_path, category, default_confidence) ==
    LET line == PyInt(Get(item.line, JNum(1)))
        confidence == PyFloat(Get(item.confidence, JNum(default_confidence)))
        body == PyStrip(Get(item.body, JStr(<<>>)))
    IN  IF line.exc # "none" THEN [exc |-> line.exc, comment |-> NoComment]
        ELSE IF confidence.exc # "none"
             THEN [exc |-> confidence.exc, comment |-> NoComment]
        ELSE IF body.exc # "none" THEN [exc |-> body.exc, comment |-> NoComment]
        ELSE [exc |-> "none",
              comment |-> [path |-> Get(item.path, JStr(file_path)).s,
                           line |-> line.n,
                           side |-> Get(item.side, JStr(SideNew)).s,
                           category |-> Get(item.category, JStr(category)).s,
                           confidence |-> confidence.n,
                           body |-> body.s]]

Min(a, b) == IF a < b THEN a ELSE b
Max(a, b) == IF a > b THEN a ELSE b

ClampMutNone(confidence) == confidence

\* max(0.0, min(1.0, confidence))
Clamp(confidence) == Max(0, Min(10, confidence))

\* ReviewComment(**comment): pydantic raises ValidationError, a ValueError
ReviewCommentValid(comment) ==
    /\ comment.line > 0
    /\ comment.side \in {SideNew, SideOld}
    /\ comment.confidence >= 0 /\ comment.confidence <= 10
    /\ Len(comment.body) >= 1

\* the `for item in parsed` loop of the strict path; an exception other than
\* ValueError, KeyError, TypeError leaves _format_output
RECURSIVE FormatItems(_, _, _, _)
FormatItems(items, file_path, category, comments) ==
    IF items = <<>> THEN [raised |-> "none", comments |-> comments]
    ELSE LET item == Head(items)
             built == BuildComment(item, file_path, category, StrictDefaultConfidence)
             comment == [built.comment EXCEPT
                            !.confidence = Clamp(@),
                            !.side = IF @ \in {SideNew, SideOld} THEN @ ELSE SideNew]
         IN  IF ~item.isDict
             THEN FormatItems(Tail(items), file_path, category, comments)
             ELSE IF built.exc \in {"ValueError", "TypeError"}
                  THEN FormatItems(Tail(items), file_path, category, comments)
             ELSE IF built.exc # "none"
                  THEN [raised |-> built.exc, comments |-> <<>>]
             ELSE IF built.comment.body = <<>>
                  THEN FormatItems(Tail(items), file_path, category, comments)
             ELSE IF ~ReviewCommentValid(comment)
                  THEN FormatItems(Tail(items), file_path, category, comments)
             ELSE FormatItems(Tail(items), file_path, category,
                              Append(comments, comment))

\* the items of one regex match that parsed: a ValueError ends the match (the
\* comments it appended stay), any other exception leaves _fallback_parse
RECURSIVE FallbackItems(_, _, _, _)
FallbackItems(items, file_path, category, comments) ==
    IF items = <<>> THEN [raised |-> "none", comments |-> comments]
    ELSE LET item == Head(items)
             built == BuildComment(item, file_path, category, FallbackDefaultConfidence)
         IN  IF ~item.isDict \/ item.body.t = "absent"
             THEN FallbackItems(Tail(items), file_path, category, comments)
             ELSE IF built.exc = "ValueError"
                  THEN [raised |-> "none", comments |-> comments]
             ELSE IF built.exc # "none"
                  THEN [raised |-> built.exc, comments |-> <<>>]
             ELSE FallbackItems(Tail(items), file_path, category,
                                Append(comments, built.comment))

\* the `for match in matches` loop over what the bracket pattern found
RECURSIVE _fallback_parse(_, _, _, _)
_fallback_parse(matches, file_path, category, comments) ==
    IF matches = <<>> THEN [raised |-> "none", comments |-> comments]
    ELSE LET match == Head(matches)
             got == FallbackItems(match.items, file_path, category, comments)
         IN  IF match.parsed = "invalid"
             THEN _fallback_parse(Tail(matches), file_path, category, comments)
             ELSE IF got.raised # "none" THEN got
             ELSE _fallback_parse(Tail(matches), file_path, category, got.comments)

\* raw.parsed is what json.loads(raw_response) gives: "object", "array",
\* "scalar", or "invalid" for JSONDecodeError
_format_output(raw, file_path, category) ==
    CASE raw.parsed \in {"object", "array"} ->
             FormatItems(raw.items, file_path, category, <<>>)
      [] raw.parsed = "scalar" -> [raised |-> "none", comments |-> <<>>]
      [] OTHER -> _fallback_parse(raw.matches, file_path, category, <<>>)

----------------------------------------------------------------------------
(* Diff parser: parse_unified_diff of src/app.py and of                    *)
(* src/routes/review.py                                                    *)
(*                                                                         *)
(* The argument is kept as diff.split("\n"), a sequence of lines, each a   *)
(* sequence of characters.  An Optional[str] is [isNone, s].               *)

None == [isNone |-> TRUE, s |-> <<>>]
Some(s) == [isNone |-> FALSE, s |-> s]

\* line.startswith(prefix)
StartsWith(line, prefix) ==
    Len(line) >= Len(prefix) /\ SubSeq(line, 1, Len(prefix)) = prefix

\* line[n:]
Suffix(line, n) == SubSeq(line, n + 1, Len(line))

\* a test of `not diff` alone
IsBlankDiffMutEmptyOnly(lines) == lines = <<<<>>>>

\* `not diff or not diff.strip()`: the line separators are whitespace too
IsBlankDiff(lines) == \A i \in 1..Len(lines) : Strip(lines[i]) = <<>>

DiffGitPrefix == <<"d", "i", "f", "f", " ", "-", "-", "g", "i", "t">>
NewPathPrefix == <<"+", "+", "+", " ", "b", "/">>
OldPathPrefix == <<"-", "-", "-", " ", "a", "/">>
NewDevNull ==
    <<"+", "+", "+", " ", "/", "d", "e", "v", "/", "n", "u", "l", "l">>
HunkPrefix == <<"@", "@">>

\* the length of the run of characters other than '@' that starts at i
RECURSIVE RunNotAt(_, _)
RunNotAt(line, i) ==
    IF i > Len(line) \/ line[i] = "@" THEN 0 ELSE 1 + RunNotAt(line, i + 1)

\* re.match(r"^(@@[^@]+@@)", line): group 1, or None
HunkHeaderMatch(line) ==
    LET k == RunNotAt(line, 3)
    IN  IF /\ StartsWith(line, HunkPrefix)
           /\ k >= 1
           /\ Len(line) >= 4 + k
           /\ line[3 + k] = "@"
           /\ line[4 + k] = "@"
        THEN Some(SubSeq(line, 1, 4 + k))
        ELSE None

ParserStart ==
    [files |-> <<>>, current_file |-> None, current_hunks |-> <<>>,
     current_hunk_header |-> None, current_hunk_lines |-> <<>>]

\* a pending hunk is saved whatever it holds
HunkRetainedMutAny(header, hunk_lines) == ~header.isNone

\* `if current_hunk_header is not None and current_hunk_lines`
HunkRetained(header, hunk_lines) == ~header.isNone /\ hunk_lines # <<>>

\* save_current_hunk(): the pending header and lines stay as they are
SaveCurrentHunk(st) ==
    IF HunkRetained(st.current_hunk_header, st.current_hunk_lines)
    THEN [st EXCEPT !.current_hunks =
             Append(@, [header |-> st.current_hunk_header.s,
                        lines |-> st.current_hunk_lines])]
    ELSE st

\* save_current_file(): `if current_file is not None and current_hunks`
SaveCurrentFile(st) ==
    IF ~st.current_file.isNone /\ st.current_hunks # <<>>
    THEN [st EXCEPT !.files =
             Append(@, [path |-> st.current_file.s, hunks |-> st.current_hunks])]
    ELSE st

\* a reset that leaves the path of the file before
ResetForNewFileMutKeepPath(st) ==
    [st EXCEPT !.current_hunks = <<>>, !.current_hunk_header = None,
               !.current_hunk_lines = <<>>]

\* the four assignments behind a `diff --git` line
ResetForNewFile(st) ==
    [st EXCEPT !.current_file = None, !.current_hunks = <<>>,
               !.current_hunk_header = None, !.current_hunk_lines = <<>>]

\* an old-path line that is taken whatever path is set
OldPathAppliesMutAlways(current_file) == TRUE

\* `and current_file is None` of the `--- a/` branch
OldPathApplies(current_file) == current_file.isNone

\* an unprefixed line that is kept whatever the hunk holds
HunkContentMutAlways(st, line) ==
    IF \/ StartsWith(line, <<"+">>)
       \/ StartsWith(line, <<"-">>)
       \/ StartsWith(line, <<" ">>)
    THEN [st EXCEPT !.current_hunk_lines = Append(@, line)]
    ELSE IF line # <<>> /\ ~StartsWith(line, <<"\\">>)
         THEN [st EXCEPT !.current_hunk_lines = Append(@, <<" ">> \o line)]
    ELSE st

\* the branch of the if/elif chain that a content line of a hunk takes
HunkContent(st, line) ==
    IF \/ StartsWith(line, <<"+">>)
       \/ StartsWith(line, <<"-">>)
       \/ StartsWith(line, <<" ">>)
    THEN [st EXCEPT !.current_hunk_lines = Append(@, line)]
    ELSE IF line # <<>> /\ ~StartsWith(line, <<"\\">>)
              /\ st.current_hunk_lines # <<>>
         THEN [st EXCEPT !.current_hunk_lines = Append(@, <<" ">> \o line)]
    ELSE st

\* one pass of `for line in lines`; impl is "app" or "routes": only
\* src/app.py has the `+++ /dev/null` branch
ParseLine(impl, st, line) ==
    CASE StartsWith(line, DiffGitPrefix) ->
             ResetForNewFile(SaveCurrentFile(SaveCurrentHunk(st)))
      [] OTHER ->
    CASE StartsWith(line, NewPathPrefix) ->
             [st EXCEPT !.current_file = Some(Suffix(line, 6))]
      [] OTHER ->
    CASE impl = "app" /\ StartsWith(line, NewDevNull) -> st
      [] OTHER ->
    CASE StartsWith(line, OldPathPrefix) /\ OldPathApplies(st.current_file) ->
             [st EXCEPT !.current_file = Some(Suffix(line, 6))]
      [] OTHER ->
    CASE StartsWith(line, HunkPrefix) ->
             IF HunkHeaderMatch(line).isNone THEN SaveCurrentHunk(st)
             ELSE [SaveCurrentHunk(st) EXCEPT
                      !.current_hunk_header = HunkHeaderMatch(line),
                      !.current_hunk_lines = <<>>]
      [] OTHER ->
    IF ~st.current_hunk_header.isNone THEN HunkContent(st, line) ELSE st

RECURSIVE ParseLines(_, _, _)
ParseLines(impl, st, lines) ==
    IF lines = <<>> THEN st
    ELSE ParseLines(impl, ParseLine(impl, st, Head(lines)), Tail(lines))

\* parse_unified_diff(diff): ValueError, or the files
parse_unified_diff(impl, lines) ==
    IF IsBlankDiff(lines) THEN [raised |-> "ValueError", files |-> <<>>]
    ELSE [raised |-> "none",
          files |-> SaveCurrentFile(SaveCurrentHunk(
                        ParseLines(impl, ParserStart, lines))).files]

----------------------------------------------------------------------------
(* Hunk snippet: BaseAgent._extract_hunk_snippet, src/agents/base_agent.py *)

\* max_lines: int = 60, and the max_lines=60 of the reviewers' calls
DefaultMaxLines == 60

\* "\n".join(lines)
RECURSIVE JoinLines(_)
JoinLines(lines) ==
    IF lines = <<>> THEN <<>>
    ELSE IF Len(lines) = 1 THEN lines[1]
    ELSE lines[1] \o <<"\n">> \o JoinLines(Tail(lines))

\* a limit that cuts a hunk of exactly max_lines lines as well
TruncatesMutGE(n, max_lines) == n >= max_lines

\* `if len(lines) > max_lines:`
Truncates(n, max_lines) == n > max_lines

MarkerHead == <<".", ".", ".", " ", "(">>

MarkerTail ==
    <<" ", "m", "o", "r", "e", " ", "l", "i", "n", "e", "s", " ",
      "t", "r", "u", "n", "c", "a", "t", "e", "d", ")">>

\* f"\n... ({len(hunk.get('lines', [])) - max_lines} more lines truncated)"
TruncationMarker(count) == <<"\n">> \o MarkerHead \o IntToStr(count) \o MarkerTail

\* _extract_hunk_snippet(hunk, max_lines), for max_lines >= 0; a hunk
\* without "header" or "lines" takes the defaults of hunk.get
_extract_hunk_snippet(hunk, max_lines) ==
    LET header == IF hunk.header.isNone THEN <<>> ELSE hunk.header.s
        all == IF hunk.lines.isNone THEN <<>> ELSE hunk.lines.s
        truncated == Truncates(Len(all), max_lines)
        lines == IF truncated THEN Prefix(all, max_lines) ELSE all
    IN  header \o <<"\n">> \o JoinLines(lines)
            \o (IF truncated THEN TruncationMarker(Len(all) - max_lines)
                ELSE <<>>)

SnIdle ==
    [pc |-> "idle", hunk |-> [header |-> None, lines |-> None],
     max_lines |-> DefaultMaxLines, result |-> <<>>]

\* _extract_hunk_snippet called on its own
SnippetCall ==
    /\ sn.pc = "call"
    /\ sn' = [sn EXCEPT !.pc = "done",
                        !.result = _extract_hunk_snippet(sn.hunk, sn.max_lines)]
    /\ UNCHANGED <<dd, llm, nz, req, orch, agents, pu>>

----------------------------------------------------------------------------
(* Producer client: src/agents/llm_client.py                               *)

DefaultMaxRetries == 3

\* what one `await client.post(...)` and the handling of its response can
\* come to: the status, and for 200 and 400 what the body holds
AttemptOutcomes ==
    {"200_text",            \* candidates[0] carries non-empty text
     "200_no_candidates",   \* "candidates" missing or empty
     "200_empty_text",      \* text missing or ""
     "200_bad_body",        \* response.json() or the indexing raises
     "400_json",            \* error body is a JSON object
     "400_bad_body",        \* response.json() raises on the error body
     "403", "404", "429", "500",
     "timeout",             \* httpx.TimeoutException
     "network"}             \* any other httpx.RequestError

\* the exception an attempt ends in inside the try block, "none" for a return
AttemptRaises(outcome) ==
    CASE outcome = "200_text" -> "none"
      [] outcome \in {"200_no_candidates", "200_empty_text"} -> "LLMError"
      [] outcome \in {"200_bad_body", "400_bad_body"} -> "Exception"
      [] outcome \in {"400_json", "403", "404"} -> "LLMError"
      [] outcome = "429" -> "status_429"
      [] outcome = "500" -> "status_5xx"
      [] outcome = "timeout" -> "TimeoutException"
      [] outcome = "network" -> "RequestError"

\* the branches that test `attempt < max_retries` before sleeping
RetryBranches ==
    {"status_429", "status_5xx", "TimeoutException", "RequestError", "Exception"}

MayRetryMutLE(attempt, max_retries) == attempt <= max_retries

\* `if attempt < max_retries:`
MayRetry(attempt, max_retries) == attempt < max_retries

RECURSIVE Pow2(_)
Pow2(n) == IF n = 0 THEN 1 ELSE 2 * Pow2(n - 1)

\* a backoff of one second whatever the attempt
BackoffDelayMutConstant(raises, attempt) == 1

\* the argument of asyncio.sleep in each retrying branch, in seconds
BackoffDelay(raises, attempt) ==
    CASE raises = "status_429" -> Pow2(attempt)
      [] raises = "status_5xx" -> 1 * attempt
      [] OTHER -> 1

\* handlers that let the exception of the last attempt through
LeavesAsMutReraise(raises) ==
    IF raises \in {"TimeoutException", "RequestError", "Exception"}
    THEN raises ELSE "LLMError"

\* the exception that leaves llm_call when an attempt ends in `raises` and is
\* not retried: `except LLMError: raise`, and `raise LLMError(...)` at the end
\* of the 429 and 5xx branches and of the three other handlers
LeavesAs(raises) ==
    CASE raises = "LLMError" -> "LLMError"
      [] raises \in {"status_429", "status_5xx"} -> "LLMError"
      [] raises = "TimeoutException" -> "LLMError"
      [] raises = "RequestError" -> "LLMError"
      [] raises = "Exception" -> "LLMError"

LlmIdle ==
    [pc |-> "idle", api_key |-> TRUE, max_retries |-> DefaultMaxRetries,
     attempt |-> 0, trace |-> <<>>, result |-> "none"]

\* os.getenv("GEMINI_API_KEY") and the entry into the for loop
LlmEnter ==
    /\ llm.pc = "enter"
    /\ llm' = IF llm.api_key
              THEN [llm EXCEPT !.pc = "post", !.attempt = 1]
              ELSE [llm EXCEPT !.pc = "raised", !.result = "LLMError"]
    /\ UNCHANGED <<sn, pu, dd, nz, req, orch, agents>>

\* one pass of the loop body, from client.post to return, raise or sleep
LlmAttempt(outcome) ==
    /\ llm.pc = "post"
    /\ LET raises == AttemptRaises(outcome)
           posted == Append(llm.trace,
                            [ev |-> "post", attempt |-> llm.attempt,
                             what |-> outcome, delay |-> 0])
       IN  llm' =
             IF raises = "none"
             THEN [llm EXCEPT !.pc = "returned", !.result = "text", !.trace = posted]
             ELSE IF raises \in RetryBranches /\ MayRetry(llm.attempt, llm.max_retries)
             THEN [llm EXCEPT !.pc = "sleep",
                              !.trace = Append(posted,
                                  [ev |-> "sleep", attempt |-> llm.attempt,
                                   what |-> raises,
                                   delay |-> BackoffDelay(raises, llm.attempt)])]
             ELSE [llm EXCEPT !.pc = "raised", !.result = LeavesAs(raises),
                              !.trace = posted]
    /\ UNCHANGED <<sn, pu, dd, nz, req, orch, agents>>

\* asyncio.sleep returns and `continue` takes the next attempt; past the last
\* attempt the loop ends and the code behind it raises
LlmWake ==
    /\ llm.pc = "sleep"
    /\ llm' = IF llm.attempt + 1 <= llm.max_retries
              THEN [llm EXCEPT !.pc = "post", !.attempt = @ + 1]
              ELSE [llm EXCEPT !.pc = "raised", !.result = "LLMError"]
    /\ UNCHANGED <<sn, pu, dd, nz, req, orch, agents>>

----------------------------------------------------------------------------
(* The batch, the producer and the reviewers                               *)

MaxFiles == 2
MaxHunks == 2

\* agents = [LogicAgent(), StyleAgent(), SecurityAgent(), PerformanceAgent()]
AgentList ==
    <<[name |-> "LogicAgent", category |-> <<"l", "o", "g", "i", "c">>],
      [name |-> "StyleAgent", category |-> <<"s", "t", "y", "l", "e">>],
      [name |-> "SecurityAgent",
       category |-> <<"s", "e", "c", "u", "r", "i", "t", "y">>],
      [name |-> "PerformanceAgent",
       category |-> <<"p", "e", "r", "f", "o", "r", "m", "a", "n", "c", "e">>]>>

AgentIds == 1..Len(AgentList)

\* the path of the i-th file of the batch: b1, a2, b3, ... (not in sorted order)
PathOf(i) == <<IF i % 2 = 1 THEN "b" ELSE "a">> \o NatToStr(i)

Item(path, line, side, category, confidence, body) ==
    [isDict |-> TRUE, path |-> path, line |-> line, side |-> side,
     category |-> category, confidence |-> confidence, body |-> body]

NotADict ==
    [isDict |-> FALSE, path |-> JAbsent, line |-> JAbsent, side |-> JAbsent,
     category |-> JAbsent, confidence |-> JAbsent, body |-> JAbsent]

RawArray(items) == [parsed |-> "array", items |-> items, matches |-> <<>>]
RawObject(item) == [parsed |-> "object", items |-> <<item>>, matches |-> <<>>]
RawScalar == [parsed |-> "scalar", items |-> <<>>, matches |-> <<>>]
RawText(matches) == [parsed |-> "invalid", items |-> <<>>, matches |-> matches]

MatchInvalid == [parsed |-> "invalid", items |-> <<>>]
MatchArray(items) == [parsed |-> "array", items |-> items]
MatchObject(item) == [parsed |-> "object", items |-> <<item>>]

\* What the producer answers for one unit of work.  A profile lists four
\* behaviours; the unit (file f, reviewer a, hunk h) takes one of them by its
\* position, so that one reviewer meets different behaviours on its hunks.
Profiles ==
    <<<<"finds", "finds", "finds", "finds">>,
      <<"exhausted", "finds", "fatal", "crash">>,
      <<"finds", "crash", "prose", "silent">>,
      <<"exhausted", "fatal", "crash", "exhausted">>,
      <<"silent", "silent", "silent", "silent">>>>

Scenarios == 1..Len(Profiles)

Behaviour(sc, f, a, h) == Profiles[sc][((f + a + h - 3) % 4) + 1]

\* the text a unit's llm_call returns when it returns: the reviewers report
\* the hunk's line with bodies and confidences that collide across reviewers
ProducerText(sc, f, a, h) ==
    LET b == Behaviour(sc, f, a, h)
        body == CASE a = 3 -> <<"y">>
                  [] a = 4 -> <<"X", " ">>
                  [] OTHER -> <<"x">>
        confidence == IF a % 2 = 0 THEN JNum(9) ELSE JAbsent
        found == Item(JAbsent, JNum(h), JAbsent, JAbsent, confidence, JStr(body))
    IN  CASE b = "finds" -> RawArray(<<found>>)
          [] b = "crash" -> RawArray(<<found, Item(JAbsent, JNum(h), JAbsent,
                                                   JAbsent, JAbsent, JNull)>>)
          [] b = "prose" -> RawText(<<MatchInvalid, MatchArray(<<found>>)>>)
          [] OTHER -> RawArray(<<>>)

\* how the unit's llm_call ends
ProducerEnds(sc, f, a, h) ==
    CASE Behaviour(sc, f, a, h) = "exhausted" -> "exhausted"
      [] Behaviour(sc, f, a, h) = "fatal" -> "fatal"
      [] OTHER -> "text"

\* a reviewer that hands the normalizer something whatever llm_call did
NormalizesMutAlways(ends) == TRUE

\* `response = await llm_call(...)` returned, so that the next statement,
\* `comments = self._format_output(...)`, runs
Normalizes(ends) == ends = "text"

\* One pass of the `for hunk in hunks` body of review() once llm_call is over:
\* llm_call raised LLMError, or _format_output raised, or the comments
HunkResult(sc, f, a, h) ==
    LET out == _format_output(ProducerText(sc, f, a, h), PathOf(f),
                              AgentList[a].category)
    IN  IF ~Normalizes(ProducerEnds(sc, f, a, h))
        THEN [exc |-> "LLMError", comments |-> <<>>]
        ELSE [exc |-> out.raised, comments |-> out.comments]

AgentIdle ==
    [pc |-> "idle", hunk |-> 0, comments |-> <<>>, raised |-> FALSE]

\* review() up to its first await: all_comments = [], llm_call of hunk 1
AgentStarted ==
    [pc |-> "call", hunk |-> 1, comments |-> <<>>, raised |-> FALSE]

\* a review() that the cancellation of the gather ended at its await
AgentCancelled ==
    [pc |-> "cancelled", hunk |-> 0, comments |-> <<>>, raised |-> FALSE]

\* `except LLMError` / `except Exception` around the hunk without `continue`:
\* the exception leaves review() and becomes the reviewer's gather result
AfterHunkErrorMutPropagate(agent, nhunks) ==
    [agent EXCEPT !.pc = "done", !.raised = TRUE, !.comments = <<>>]

\* a failed hunk that ends the reviewer as a cancellation would
AfterHunkErrorMutCancel(agent, nhunks) == AgentCancelled

\* a reviewer that reports a failed hunk as a finding of its own
AfterHunkErrorMutReport(agent, nhunks) ==
    LET failed == [path |-> <<"a">>, line |-> 1, side |-> SideNew,
                   category |-> <<"x">>, confidence |-> 0, body |-> <<"x">>]
    IN  IF agent.hunk < nhunks
        THEN [agent EXCEPT !.hunk = @ + 1, !.comments = Append(@, failed)]
        ELSE [agent EXCEPT !.pc = "done", !.comments = Append(@, failed)]

\* `except LLMError: continue` and `except Exception: continue`
AfterHunkError(agent, nhunks) ==
    IF agent.hunk < nhunks
    THEN [agent EXCEPT !.hunk = @ + 1]
    ELSE [agent EXCEPT !.pc = "done"]

\* a reviewer that never comes back once a hunk gave comments
AfterHunkOkMutStuck(agent, nhunks, comments) == AgentIdle

\* all_comments.extend(comments), then the next hunk or `return all_comments`
AfterHunkOk(agent, nhunks, comments) ==
    IF agent.hunk < nhunks
    THEN [agent EXCEPT !.hunk = @ + 1, !.comments = @ \o comments]
    ELSE [agent EXCEPT !.pc = "done", !.comments = @ \o comments]

----------------------------------------------------------------------------
(* Orchestrator and entry points: src/agents/orchestrator.py, src/app.py,  *)
(* src/routes/review.py                                                    *)

BatchTimeoutSeconds == 120

AppEntryPoints == {"app.review_manual_diff", "app.review_github_pr"}
RouteEntryPoints == {"routes.review_manual_diff", "routes.review_github_pr"}
EntryPoints == AppEntryPoints \cup RouteEntryPoints

\* the timeout the entry point puts around run_agents_on_files, 0 for none:
\* src/app.py awaits run_agents_on_files(files_for_agents) itself,
\* src/routes/review.py awaits run_orchestrator_with_timeout(..., timeout=120.0)
TimeoutOf(entry) ==
    IF entry \in RouteEntryPoints THEN BatchTimeoutSeconds ELSE 0

DdIdle == [pc |-> "idle", input |-> <<>>, output |-> <<>>]

NzIdle ==
    [pc |-> "idle", raw |-> RawScalar, agent |-> 1,
     result |-> [raised |-> "none", comments |-> <<>>]]

NoParse == [raised |-> "none", files |-> <<>>]

PuIdle ==
    [pc |-> "idle", impl |-> "app", input |-> <<>>, via |-> "none",
     called |-> FALSE, result |-> NoParse, status |-> "none"]

NoReply ==
    [status |-> "pending", has_comments |-> FALSE, comments |-> <<>>,
     summary |-> "none"]

\* llm_calls and format_calls record the calls the reviewers have made so
\* far: the units whose llm_call is over, with how often, and the units whose
\* text went to _format_output
OrchIdle ==
    [pc |-> "idle", file |-> 0, all_comments |-> <<>>, finished |-> <<>>,
     result |-> <<>>, llm_calls |-> <<>>, format_calls |-> {}]

\* one more call recorded for unit u
Called(calls, u) ==
    [v \in DOMAIN calls \cup {u} |->
        (IF v \in DOMAIN calls THEN calls[v] ELSE 0) + (IF v = u THEN 1 ELSE 0)]

\* the order in which the reviewers' results are read at the join
ResultOrderMutCompletion(finished) == finished

\* asyncio.gather returns the results in the order of agent_tasks
ResultOrder(finished) == [i \in AgentIds |-> i]

\* `for i, result in enumerate(results)`: an exception is logged and
\* skipped, a list is appended to all_comments
RECURSIVE CollectResults(_, _, _)
CollectResults(order, tasks, all_comments) ==
    IF order = <<>> THEN all_comments
    ELSE LET result == tasks[Head(order)]
         IN  IF result.raised
             THEN CollectResults(Tail(order), tasks, all_comments)
             ELSE CollectResults(Tail(order), tasks, all_comments \o result.comments)

\* a wrapper that answers a timeout with what it has
TimeoutReplyMutPartial(collected) ==
    [status |-> "200", has_comments |-> TRUE,
     comments |-> _deduplicate_comments(collected), summary |-> "none"]

\* asyncio.wait_for cancels run_agents_on_files and raises TimeoutError,
\* run_orchestrator_with_timeout re-raises it, the route answers 504
TimeoutReply(collected) ==
    [status |-> "504", has_comments |-> FALSE, comments |-> <<>>,
     summary |-> "none"]

\* The entry point up to its first suspension: the diff is parsed, the
\* timeout (if the entry point has one) starts, run_agents_on_files creates
\* the reviewers and awaits the gather of the first file.
Enter ==
    /\ req.reply.status = "pending"
    /\ orch.pc = "idle"
    /\ req' = [req EXCEPT !.timer = IF TimeoutOf(req.entry) > 0
                                    THEN "armed" ELSE "none"]
    /\ orch' = [orch EXCEPT !.pc = "gather", !.file = 1]
    /\ agents' = [a \in AgentIds |-> AgentStarted]
    /\ UNCHANGED <<sn, pu, dd, llm, nz>>

\* a reviewer that extends the orchestrator's list with its hunk's comments
SharedAfterHunkMutExtend(all_comments, comments) == all_comments \o comments

\* review() extends the list it made itself (`all_comments: List = []` of
\* review); the orchestrator's all_comments is another object and stays
SharedAfterHunk(all_comments, comments) == all_comments

\* the llm_call that reviewer a awaits for its current hunk is over after
\* `attempts` attempts (all of them when the retries were exhausted):
\* review() resumes, normalizes the text or handles the exception, and awaits
\* the llm_call of its next hunk or returns
AgentHunk(a, attempts) ==
    /\ orch.pc = "gather"
    /\ agents[a].pc = "call"
    /\ ProducerEnds(req.scenario, orch.file, a, agents[a].hunk) = "exhausted"
          => attempts = DefaultMaxRetries
    /\ LET res == HunkResult(req.scenario, orch.file, a, agents[a].hunk)
           after == IF res.exc # "none"
                    THEN AfterHunkError(agents[a], req.nhunks)
                    ELSE AfterHunkOk(agents[a], req.nhunks, res.comments)
           unit == <<orch.file, a, agents[a].hunk>>
       IN  /\ agents' = [agents EXCEPT ![a] = after]
           /\ orch' = [orch EXCEPT
                  !.finished = IF after.pc = "done" THEN Append(@, a) ELSE @,
                  !.all_comments = SharedAfterHunk(@, res.comments),
                  !.llm_calls = Called(@, unit),
                  !.format_calls =
                      IF Normalizes(ProducerEnds(req.scenario, orch.file, a,
                                                 agents[a].hunk))
                      THEN @ \cup {unit} ELSE @]
    /\ UNCHANGED <<sn, pu, dd, llm, nz, req>>

\* a wait that is over with the first reviewer that finishes
GatherCompleteMutFirst(tasks) == \E a \in AgentIds : tasks[a].pc = "done"

\* `await asyncio.gather(*agent_tasks, return_exceptions=True)` resumes once
\* every review() of the file has returned or raised
GatherComplete(tasks) == \A a \in AgentIds : tasks[a].pc = "done"

\* the gather of the current file is complete: its results are collected and
\* the loop takes the next file and awaits its gather
JoinNextFile ==
    /\ orch.pc = "gather"
    /\ GatherComplete(agents)
    /\ orch.file < req.nfiles
    /\ orch' = [orch EXCEPT
                   !.file = @ + 1,
                   !.finished = <<>>,
                   !.all_comments =
                       CollectResults(ResultOrder(orch.finished), agents, @)]
    /\ agents' = [a \in AgentIds |-> AgentStarted]
    /\ UNCHANGED <<sn, pu, dd, llm, nz, req>>

\* the gather of the last file is complete: its results are collected, the
\* comments are deduplicated and run_agents_on_files returns
JoinReturn ==
    /\ orch.pc = "gather"
    /\ GatherComplete(agents)
    /\ orch.file = req.nfiles
    /\ LET all == CollectResults(ResultOrder(orch.finished), agents,
                                 orch.all_comments)
       IN  orch' = [orch EXCEPT !.pc = "returned",
                                !.all_comments = all,
                                !.result = _deduplicate_comments(all)]
    /\ UNCHANGED <<sn, pu, dd, llm, nz, req, agents>>

\* the timeout expires while run_agents_on_files is suspended in a gather:
\* the orchestrator and the reviewers are cancelled where they wait
Timeout ==
    /\ req.timer = "armed"
    /\ orch.pc = "gather"
    /\ req' = [req EXCEPT !.timer = "expired",
                          !.reply = TimeoutReply(
                              CollectResults(ResultOrder(orch.finished), agents,
                                             orch.all_comments))]
    /\ orch' = [orch EXCEPT !.pc = "cancelled"]
    /\ agents' = [a \in AgentIds |-> AgentCancelled]
    /\ UNCHANGED <<sn, pu, dd, llm, nz>>

\* the entry point has the comments and answers 200; the routes of
\* src/routes/review.py add generate_summary's text, None when its llm_call
\* failed, and a fixed sentence without any call when there are no comments
Reply(summary) ==
    /\ orch.pc = "returned"
    /\ req.reply.status = "pending"
    /\ summary = CASE req.entry \in AppEntryPoints -> "none"
                   [] orch.result = <<>> -> "no_issues"
                   [] OTHER -> IF summary \in {"text", "null"}
                               THEN summary ELSE "text"
    /\ req' = [req EXCEPT
                  !.timer = IF @ = "armed" THEN "stopped" ELSE @,
                  !.reply = [status |-> "200", has_comments |-> TRUE,
                             comments |-> orch.result, summary |-> summary]]
    /\ UNCHANGED <<sn, pu, dd, llm, nz, orch, agents>>

Init ==
    /\ sn = SnIdle
    /\ dd = DdIdle
    /\ llm = LlmIdle
    /\ nz = NzIdle
    /\ req \in [entry : EntryPoints, nfiles : 1..MaxFiles, nhunks : 1..MaxHunks,
                scenario : Scenarios, timer : {"none"}, reply : {NoReply}]
    /\ orch = OrchIdle
    /\ agents = [a \in AgentIds |-> AgentIdle]
    /\ pu = PuIdle

Next ==
    \/ Enter
    \/ \E a \in AgentIds : \E attempts \in 1..DefaultMaxRetries :
          AgentHunk(a, attempts)
    \/ JoinNextFile
    \/ JoinReturn
    \/ Timeout
    \/ \E summary \in {"none", "no_issues", "text", "null"} : Reply(summary)

Spec == Init /\ [][Next]_vars

----------------------------------------------------------------------------
(* The functions on their own: each is called once on an argument drawn    *)
(* from a bounded set                                                      *)

MaxComments == 3
MaxItems == 2

Comment(path, line, category, confidence, body) ==
    [path |-> path, line |-> line, side |-> SideNew, category |-> category,
     confidence |-> confidence, body |-> body]

\* findings as the reviewers hand them to the orchestrator: equal keys with
\* equal and with different confidence, bodies that differ in case and outer
\* blanks, equal (path, line) with different bodies, a path that holds ':',
\* bodies that differ in the blanks between their words
SampleComments ==
    {Comment(<<"a">>, 1, AgentList[1].category, 7, <<"x">>),
     Comment(<<"a">>, 1, AgentList[2].category, 7, <<"x">>),
     Comment(<<"a">>, 1, AgentList[3].category, 9, <<"X", " ">>),
     Comment(<<"a">>, 1, AgentList[4].category, 9, <<"x">>),
     Comment(<<"a">>, 1, AgentList[1].category, 5, <<"y">>),
     Comment(<<"b">>, 1, AgentList[1].category, 7, <<"x">>),
     Comment(<<"a">>, 2, AgentList[4].category, 3, <<"x">>),
     Comment(<<"a", ":", "1">>, 2, AgentList[2].category, 9, <<"x">>),
     Comment(<<"a">>, 1, AgentList[3].category, 5, <<"2", ":", "x">>),
     Comment(<<"a">>, 1, AgentList[1].category, 7, <<"x", " ", "y">>),
     Comment(<<"a">>, 1, AgentList[2].category, 9, <<"X", " ", " ", "y">>)}

SeqsUpTo(S, n) == UNION {[1..k -> S] : k \in 0..n}

\* objects and array elements as producers write them
SampleItems ==
    {Item(JStr(<<"a">>), JNum(2), JStr(SideOld), JStr(AgentList[3].category),
          JNum(9), JStr(<<"x">>)),
     Item(JAbsent, JAbsent, JAbsent, JAbsent, JAbsent, JStr(<<"y", " ">>)),
     Item(JAbsent, JNum(3), JAbsent, JAbsent, JNum(15), JStr(<<"x">>)),
     Item(JAbsent, JAbsent, JAbsent, JAbsent, JNum(-2), JStr(<<"x">>)),
     Item(JAbsent, JAbsent, JAbsent, JAbsent, JNum(5), JStr(<<" ", " ">>)),
     Item(JAbsent, JNum(0), JAbsent, JAbsent, JAbsent, JStr(<<"x">>)),
     Item(JAbsent, JNull, JAbsent, JAbsent, JAbsent, JStr(<<"x">>)),
     Item(JAbsent, JStr(<<"1", "2">>), JAbsent, JAbsent, JStr(<<"1">>),
          JStr(<<"y">>)),
     Item(JAbsent, JAbsent, JAbsent, JAbsent, JStr(<<"x">>), JStr(<<"x">>)),
     Item(JAbsent, JAbsent, JAbsent, JAbsent, JAbsent, JNull),
     Item(JAbsent, JAbsent, JStr(<<"x", "y">>), JAbsent, JAbsent, JStr(<<"x">>)),
     Item(JAbsent, JNum(2), JAbsent, JAbsent, JNum(9), JAbsent),
     NotADict}

\* what the bracket pattern can find in a text that is not JSON: up to
\* MaxItems matches, the fewer items each the more matches there are
MatchesOf(n) ==
    {MatchInvalid} \cup {MatchObject(i) : i \in SampleItems}
        \cup {MatchArray(l) : l \in SeqsUpTo(SampleItems, n)}

RawResponses ==
    {RawScalar}
        \cup {RawObject(i) : i \in SampleItems}
        \cup {RawArray(l) : l \in SeqsUpTo(SampleItems, MaxItems)}
        \cup {RawText(ms) : ms \in UNION {[1..k -> MatchesOf(MaxItems + 1 - k)] :
                                             k \in 0..MaxItems}}

\* _deduplicate_comments(comments)
DedupCall ==
    /\ dd.pc = "call"
    /\ dd' = [dd EXCEPT !.pc = "done", !.output = _deduplicate_comments(dd.input)]
    /\ UNCHANGED <<sn, pu, llm, nz, req, orch, agents>>

\* the reviewer's self._format_output(response, file_path)
NormalizeCall ==
    /\ nz.pc = "call"
    /\ nz' = [nz EXCEPT !.pc = "done",
                        !.result = _format_output(nz.raw, PathOf(1),
                                                  AgentList[nz.agent].category)]
    /\ UNCHANGED <<sn, pu, dd, llm, req, orch, agents>>

ReqIdle ==
    [entry |-> "app.review_manual_diff", nfiles |-> 1, nhunks |-> 1,
     scenario |-> 1, timer |-> "none", reply |-> NoReply]

InitDedup ==
    /\ sn = SnIdle
    /\ dd \in [pc : {"call"}, input : SeqsUpTo(SampleComments, MaxComments),
               output : {<<>>}]
    /\ llm = LlmIdle
    /\ nz = NzIdle
    /\ req = ReqIdle
    /\ orch = OrchIdle
    /\ agents = [a \in AgentIds |-> AgentIdle]
    /\ pu = PuIdle

NextDedup == DedupCall

SpecDedup == InitDedup /\ [][NextDedup]_vars

InitNorm ==
    /\ sn = SnIdle
    /\ dd = DdIdle
    /\ llm = LlmIdle
    /\ nz \in [pc : {"call"}, raw : RawResponses, agent : {1, 3},
               result : {[raised |-> "none", comments |-> <<>>]}]
    /\ req = ReqIdle
    /\ orch = OrchIdle
    /\ agents = [a \in AgentIds |-> AgentIdle]
    /\ pu = PuIdle

NextNorm == NormalizeCall

SpecNorm == InitNorm /\ [][NextNorm]_vars

InitLlm ==
    /\ sn = SnIdle
    /\ dd = DdIdle
    /\ llm \in [pc : {"enter"}, api_key : BOOLEAN,
                max_retries : 1..DefaultMaxRetries, attempt : {0},
                trace : {<<>>}, result : {"none"}]
    /\ nz = NzIdle
    /\ req = ReqIdle
    /\ orch = OrchIdle
    /\ agents = [a \in AgentIds |-> AgentIdle]
    /\ pu = PuIdle

NextLlm ==
    \/ LlmEnter
    \/ \E outcome \in AttemptOutcomes : LlmAttempt(outcome)
    \/ LlmWake

SpecLlm == InitLlm /\ [][NextLlm]_vars

MaxChunks == 4

\* the lines diffs are made of; the paths are x and y
GitLine(p) == DiffGitPrefix \o <<" ", "a", "/">> \o p \o <<" ", "b", "/">> \o p
HunkHeaderLine == <<"@", "@", " ", "-", "1", " ", "+", "1", " ", "@", "@">>

\* the header lines git writes for a modified file and for a deleted file
ChunkModified == <<GitLine(<<"x">>), OldPathPrefix \o <<"x">>, NewPathPrefix \o <<"x">>>>
ChunkDeleted == <<GitLine(<<"y">>), OldPathPrefix \o <<"y">>, NewDevNull>>
\* a hunk header with its section text and one added line
ChunkHunk == <<HunkHeaderLine \o <<" ", "f">>, <<"+", "a">>>>
\* a hunk header on its own
ChunkHeaderOnly == <<HunkHeaderLine>>
\* a context line without its prefix
ChunkBare == <<<<"c">>>>
\* the added line whose text is `++ b/y`
ChunkPlusPath == <<NewPathPrefix \o <<"y">>>>
\* the context line of an empty source line
ChunkBlank == <<<<" ">>>>

SampleChunks ==
    {ChunkModified, ChunkDeleted, ChunkHunk, ChunkHeaderOnly, ChunkBare,
     ChunkPlusPath, ChunkBlank}

RECURSIVE Flatten(_)
Flatten(chunks) ==
    IF chunks = <<>> THEN <<>> ELSE Head(chunks) \o Flatten(Tail(chunks))

\* diff.split("\n") of the text the chunks make: "" splits into one empty line
Lines(chunks) == IF chunks = <<>> THEN <<<<>>>> ELSE Flatten(chunks)

\* POST /review/manual up to the call of the orchestrator: the request model's
\* validator (422), parse_unified_diff, `if not parsed_files`, the handlers.
\* In src/app.py the HTTPException of `if not parsed_files` meets
\* `except Exception` and becomes 500; src/routes/review.py re-raises it.
ManualReply(impl, lines) ==
    LET parsed == parse_unified_diff(impl, lines)
    IN  IF IsBlankDiff(lines)
        THEN [called |-> FALSE, result |-> NoParse, status |-> "422"]
        ELSE [called |-> TRUE, result |-> parsed,
              status |-> CASE parsed.raised = "ValueError" -> "400"
                           [] parsed.files = <<>> ->
                                  IF impl = "app" THEN "500" ELSE "400"
                           [] OTHER -> "agents"]

\* POST /review/github once GitHub has answered with the diff text:
\* fetch_github_pr_diff's test of the text (400), parse_unified_diff,
\* `if not parsed_files`, `except HTTPException: raise`
GithubReply(impl, lines) ==
    LET parsed == parse_unified_diff(impl, lines)
    IN  IF IsBlankDiff(lines)
        THEN [called |-> FALSE, result |-> NoParse, status |-> "400"]
        ELSE [called |-> TRUE, result |-> parsed,
              status |-> CASE parsed.raised = "ValueError" -> "400"
                           [] parsed.files = <<>> -> "400"
                           [] OTHER -> "agents"]

\* parse_unified_diff(diff) called on its own
ParseCall ==
    /\ pu.pc = "request"
    /\ pu' = [pu EXCEPT !.pc = "done", !.via = "direct", !.called = TRUE,
                        !.result = parse_unified_diff(pu.impl, Lines(pu.input))]
    /\ UNCHANGED <<sn, dd, llm, nz, req, orch, agents>>

ManualRequest ==
    /\ pu.pc = "request"
    /\ LET reply == ManualReply(pu.impl, Lines(pu.input))
       IN  pu' = [pu EXCEPT !.pc = "done", !.via = "manual",
                            !.called = reply.called, !.result = reply.result,
                            !.status = reply.status]
    /\ UNCHANGED <<sn, dd, llm, nz, req, orch, agents>>

GithubRequest ==
    /\ pu.pc = "request"
    /\ LET reply == GithubReply(pu.impl, Lines(pu.input))
       IN  pu' = [pu EXCEPT !.pc = "done", !.via = "github",
                            !.called = reply.called, !.result = reply.result,
                            !.status = reply.status]
    /\ UNCHANGED <<sn, dd, llm, nz, req, orch, agents>>

InitParse ==
    /\ sn = SnIdle
    /\ dd = DdIdle
    /\ llm = LlmIdle
    /\ nz = NzIdle
    /\ req = ReqIdle
    /\ orch = OrchIdle
    /\ agents = [a \in AgentIds |-> AgentIdle]
    /\ pu \in [pc : {"request"}, impl : {"app", "routes"},
               input : SeqsUpTo(SampleChunks, MaxChunks), via : {"none"},
               called : {FALSE}, result : {NoParse}, status : {"none"}]

NextParse ==
    \/ ParseCall
    \/ ManualRequest
    \/ GithubRequest

SpecParse == InitParse /\ [][NextParse]_vars

MaxTail == 4

\* single lines as they follow an open hunk header
ChunkAdded == <<<<"+", "a">>>>
ChunkEmpty == <<<<>>>>
\* the marker `\ No newline at end of file`, shortened
ChunkNoNewline == <<<<"\\", " ", "N", "o">>>>
\* the hunk header of a combined diff, which the header pattern does not match
ChunkBadHeader == <<<<"@", "@", "@", " ", "-", "1", " ", "@", "@", "@">>>>
\* the removed line whose text is `-- a/z`
ChunkMinusPath == <<OldPathPrefix \o <<"z">>>>
\* the first line of a file's header on its own
ChunkGitOnly == <<GitLine(<<"y">>)>>

\* the added line whose text is `++ /dev/null`
ChunkPlusDevNull == <<NewDevNull>>

SampleTailChunks ==
    {ChunkAdded, ChunkBare, ChunkEmpty, ChunkNoNewline, ChunkBadHeader,
     ChunkPlusPath, ChunkMinusPath, ChunkGitOnly, ChunkHeaderOnly,
     ChunkPlusDevNull}

\* the diffs of the line-by-line checks: file x with an open hunk, then up
\* to MaxTail lines
InitLines ==
    /\ sn = SnIdle
    /\ dd = DdIdle
    /\ llm = LlmIdle
    /\ nz = NzIdle
    /\ req = ReqIdle
    /\ orch = OrchIdle
    /\ agents = [a \in AgentIds |-> AgentIdle]
    /\ pu \in [pc : {"request"}, impl : {"app", "routes"},
               input : {<<ChunkModified, ChunkHeaderOnly>> \o tail :
                           tail \in SeqsUpTo(SampleTailChunks, MaxTail)},
               via : {"none"}, called : {FALSE}, result : {NoParse},
               status : {"none"}]

NextLines == ParseCall

SpecLines == InitLines /\ [][NextLines]_vars

MaxSnippetLines == 3

SampleSnippetLines == {<<"+", "a">>, <<" ", "c">>}

\* the hunks of the snippet checks: short ones of every shape, and hunks of
\* one line fewer than, as many as, and one line more than the reviewers' limit
SampleHunkLines ==
    SeqsUpTo(SampleSnippetLines, MaxSnippetLines)
        \cup {[i \in 1..n |-> <<"+", "a">>] :
                 n \in (DefaultMaxLines - 1)..(DefaultMaxLines + 1)}

InitSnippet ==
    /\ dd = DdIdle
    /\ llm = LlmIdle
    /\ nz = NzIdle
    /\ req = ReqIdle
    /\ orch = OrchIdle
    /\ agents = [a \in AgentIds |-> AgentIdle]
    /\ pu = PuIdle
    /\ sn \in [pc : {"call"},
               hunk : [header : {None, Some(HunkHeaderLine)},
                       lines : {None} \cup {Some(l) : l \in SampleHunkLines}],
               max_lines : (0..MaxSnippetLines) \cup {DefaultMaxLines},
               result : {<<>>}]

NextSnippet == SnippetCall

SpecSnippet == InitSnippet /\ [][NextSnippet]_vars

\* no request is pending: the reply has been sent
ReqAnswered == [ReqIdle EXCEPT !.reply.status = "200"]

\* The batch and the client, each for what it does in the end: a request as
\* in Spec, or one llm_call as in SpecLlm while no request is pending.
InitLive ==
    \/ Init
    \/ /\ sn = SnIdle
       /\ dd = DdIdle
       /\ llm \in [pc : {"enter"}, api_key : BOOLEAN,
                   max_retries : 1..DefaultMaxRetries, attempt : {0},
                   trace : {<<>>}, result : {"none"}]
       /\ nz = NzIdle
       /\ req = ReqAnswered
       /\ orch = OrchIdle
       /\ agents = [a \in AgentIds |-> AgentIdle]
       /\ pu = PuIdle

NextLive == Next \/ NextLlm

\* the guards of the reviewers' step and of the two joins: where these hold
\* the step is possible, and it changes the state
AgentHunkEnabled ==
    orch.pc = "gather" /\ \E a \in AgentIds : agents[a].pc = "call"

JoinNextFileEnabled ==
    /\ orch.pc = "gather"
    /\ \A a \in AgentIds : agents[a].pc = "done"
    /\ orch.file < req.nfiles

JoinReturnEnabled ==
    /\ orch.pc = "gather"
    /\ \A a \in AgentIds : agents[a].pc = "done"
    /\ orch.file = req.nfiles

\* Every HTTP attempt comes to an end and every backoff sleep is finite, so a
\* pending attempt and a pending sleep are eventually over; review() and the
\* join are code without awaits of their own, so they go on once the awaited
\* call is over.  Nothing makes the batch timeout expire.  The fairness of
\* the reviewers' step and of the joins is WF_vars written out,
\* []<>~ENABLED <<A>>_vars \/ []<><<A>>_vars, with the guard of A for ENABLED.
FairLive ==
    /\ WF_vars(\E outcome \in AttemptOutcomes : LlmAttempt(outcome))
    /\ WF_vars(LlmWake)
    /\ \/ []<>(~AgentHunkEnabled)
       \/ []<><<\E a \in AgentIds : \E attempts \in 1..DefaultMaxRetries :
                   AgentHunk(a, attempts)>>_vars
    /\ \/ []<>(~JoinNextFileEnabled)
       \/ []<><<JoinNextFile>>_vars
    /\ \/ []<>(~JoinReturnEnabled)
       \/ []<><<JoinReturn>>_vars

SpecLive == InitLive /\ [][NextLive]_vars /\ FairLive

----------------------------------------------------------------------------
(* Properties                                                              *)

Range(seq) == {seq[i] : i \in 1..Len(seq)}

Count(x, seq) == Cardinality({i \in 1..Len(seq) : seq[i] = x})

SameBag(s, t) ==
    /\ Len(s) = Len(t)
    /\ \A x \in Range(s) \cup Range(t) : Count(x, s) = Count(x, t)

\* what the unit (f, a, h) contributes: nothing when its llm_call or its
\* normalization raised
UnitFindings(sc, f, a, h) ==
    IF HunkResult(sc, f, a, h).exc # "none" THEN <<>>
    ELSE HunkResult(sc, f, a, h).comments

UnitFails(sc, f, a, h) == HunkResult(sc, f, a, h).exc # "none"

\* the findings of the units of files 1..nfiles, by file, reviewer, hunk
RECURSIVE UnitsFrom(_, _, _, _)
UnitsFrom(k, sc, nfiles, nhunks) ==
    IF k >= nfiles * Len(AgentList) * nhunks THEN <<>>
    ELSE UnitFindings(sc, (k \div (Len(AgentList) * nhunks)) + 1,
                      ((k \div nhunks) % Len(AgentList)) + 1, (k % nhunks) + 1)
             \o UnitsFrom(k + 1, sc, nfiles, nhunks)

ExpectedAll == UnitsFrom(0, req.scenario, req.nfiles, req.nhunks)

Units == (1..req.nfiles) \X AgentIds \X (1..req.nhunks)

\* C1: whatever the units' outcomes (success, LLMError after the last retry,
\* fatal LLMError, another exception in the reviewer), run_agents_on_files
\* ends only by returning or by the batch timeout, and when it returns the
\* list it hands to deduplication holds exactly the findings of the units
\* that did not fail, none of a unit that failed, and no reviewer's result
\* is an exception.
C1_FailureIsolation ==
    /\ orch.pc \in {"idle", "gather", "returned", "cancelled"}
    /\ orch.pc = "cancelled" => req.timer = "expired"
    /\ orch.pc = "returned" =>
          /\ SameBag(orch.all_comments, ExpectedAll)
          /\ orch.result = _deduplicate_comments(orch.all_comments)
          /\ \A a \in AgentIds : agents[a].pc = "done" /\ ~agents[a].raised

C1_Witness ==
    /\ orch.pc = "returned"
    /\ orch.all_comments # <<>>
    /\ \E u \in Units : ProducerEnds(req.scenario, u[1], u[2], u[3]) = "exhausted"
    /\ \E u \in Units : ProducerEnds(req.scenario, u[1], u[2], u[3]) = "fatal"
    /\ \E u \in Units : HunkResult(req.scenario, u[1], u[2], u[3]).exc = "AttributeError"
    /\ \E u \in Units : \E v \in Units :
          /\ u[1] = v[1] /\ u[2] = v[2] /\ u[3] < v[3]
          /\ UnitFails(req.scenario, u[1], u[2], u[3])
          /\ UnitFindings(req.scenario, v[1], v[2], v[3]) # <<>>

\* C2: once the batch timeout has expired before run_agents_on_files
\* returned, the request is answered 504 and carries no list of findings,
\* neither an empty one nor the findings collected so far; 504 is answered
\* in no other case.
C2_TimeoutIsDistinct ==
    /\ req.timer = "expired" =>
          /\ req.reply.status = "504"
          /\ ~req.reply.has_comments
          /\ req.reply.comments = <<>>
          /\ orch.pc = "cancelled"
          /\ orch.result = <<>>
    /\ req.reply.status = "504" => req.timer = "expired"

C2_Witness ==
    /\ req.timer = "expired"
    /\ req.reply.status = "504"
    /\ orch.all_comments # <<>>
    /\ orch.file > 1

\* C3: whenever run_agents_on_files is running for a request, the batch
\* timeout of that request is armed.
C3_BatchAlwaysBounded == orch.pc = "gather" => req.timer = "armed"

\* C5: for a given batch and given producer responses the returned list is
\* one fixed list, the deduplication of the units' findings taken by file,
\* reviewer and hunk, whatever the order in which the reviewers completed;
\* the reply carries that list.
C5_DeterministicResult ==
    /\ orch.pc = "returned" => orch.result = _deduplicate_comments(ExpectedAll)
    /\ req.reply.status = "200" =>
          req.reply.comments = _deduplicate_comments(ExpectedAll)

C5_Witness ==
    /\ orch.pc = "returned"
    /\ orch.finished = <<4, 3, 2, 1>>
    /\ Len(orch.result) >= 2
    /\ Len(orch.result) < Len(orch.all_comments)

GroupOf(list, key) == {i \in 1..Len(list) : DedupKey(list[i]) = key}

\* the first of the findings with the highest confidence among those of a key
WinnerOf(list, key) ==
    CHOOSE i \in GroupOf(list, key) :
        \A j \in GroupOf(list, key) :
            \/ list[j].confidence < list[i].confidence
            \/ list[j].confidence = list[i].confidence /\ i <= j

\* C4: of the findings of the input that share an identity key exactly one
\* is in the output: the one with the highest confidence, and among those
\* with the highest confidence the first of the input.
C4_KeepsHighestFirst ==
    dd.pc = "done" =>
        \A key \in {DedupKey(c) : c \in Range(dd.input)} :
            /\ Cardinality(GroupOf(dd.output, key)) = 1
            /\ \A o \in GroupOf(dd.output, key) :
                   dd.output[o] = dd.input[WinnerOf(dd.input, key)]

C4_Witness ==
    /\ dd.pc = "done"
    /\ \E i \in 1..Len(dd.input) : \E j \in 1..Len(dd.input) :
          \E k \in 1..Len(dd.input) :
          /\ i < j /\ j < k
          /\ DedupKey(dd.input[i]) = DedupKey(dd.input[j])
          /\ DedupKey(dd.input[j]) = DedupKey(dd.input[k])
          /\ dd.input[i].confidence < dd.input[j].confidence
          /\ dd.input[j].confidence = dd.input[k].confidence
          /\ dd.input[j] # dd.input[k]
          /\ dd.output = <<dd.input[j]>>

\* C6: the list _deduplicate_comments returns is in non-decreasing order of
\* (path, line).
C6_OutputSorted ==
    dd.pc = "done" =>
        \A i \in 1..Len(dd.output) : \A j \in 1..Len(dd.output) :
            i < j => ~SortKeyLess(dd.output[j], dd.output[i])

C6_Witness ==
    /\ dd.pc = "done"
    /\ Len(dd.output) = Len(dd.input)
    /\ Len(dd.output) >= 3
    /\ SortKeyLess(dd.input[3], dd.input[2])
    /\ SortKeyLess(dd.input[2], dd.input[1])

Posts == SelectSeq(llm.trace, LAMBDA e : e.ev = "post")

ListedRetryable == {"timeout", "network", "429", "500"}

\* outcomes that end in the `except Exception` branch
UnexpectedFailures == {"200_bad_body", "400_bad_body"}

FatalResponses == {"400_json", "400_bad_body", "403", "404"}

EmptyResponses == {"200_no_candidates", "200_empty_text"}

RetryPolicy(retryable) ==
    /\ Len(Posts) <= llm.max_retries
    /\ \A i \in 1..Len(Posts) : Posts[i].attempt = i
    /\ \A i \in 2..Len(Posts) : Posts[i - 1].what \in retryable
    /\ (Len(Posts) = llm.max_retries /\ Posts[Len(Posts)].what # "200_text") =>
          /\ llm.pc = "raised"
          /\ llm.result = "LLMError"
          /\ llm.trace[Len(llm.trace)].ev = "post"

C8_FatalNeverRetried ==
    \A i \in 1..Len(llm.trace) :
        (llm.trace[i].ev = "post" /\ llm.trace[i].what \in FatalResponses) =>
            /\ i = Len(llm.trace)
            /\ llm.pc = "raised"
            /\ llm.result = "LLMError"

\* C9: an attempt before the last that is answered 200 without candidates
\* or with empty text is followed by a backoff sleep and the next attempt,
\* as a timeout is.
C9_EmptyIsRetried ==
    \A i \in 1..Len(llm.trace) :
        (/\ llm.trace[i].ev = "post"
         /\ llm.trace[i].what \in EmptyResponses
         /\ llm.trace[i].attempt < llm.max_retries) =>
            /\ i < Len(llm.trace)
            /\ llm.trace[i + 1].ev = "sleep"

\* C10: every finding _format_output returns, from the strict path or from
\* the fallback path, has a confidence within [0.0, 1.0].
C10_ConfidenceClamped ==
    nz.pc = "done" =>
        \A c \in Range(nz.result.comments) :
            c.confidence >= 0 /\ c.confidence <= 10

\* the line and the confidence an object states, as int() and float() read them
LineOf(item) ==
    CASE item.line.t = "absent" -> 1
      [] item.line.t = "num" -> item.line.n
      [] OTHER -> StrToNat(Strip(item.line.s))

ConfidenceOf(item, default) ==
    CASE item.confidence.t = "absent" -> default
      [] item.confidence.t = "num" -> item.confidence.n
      [] OTHER -> 10 * StrToNat(Strip(item.confidence.s))

Numeric(v) == v.t = "num" \/ (v.t = "str" /\ IsDigits(Strip(v.s)))

\* an array element that is malformed in one of the ways C12 lists, or whose
\* body is blank
StrictMalformed(item) ==
    \/ ~item.isDict
    \/ item.line.t # "absent" /\ ~Numeric(item.line)
    \/ LineOf(item) <= 0
    \/ item.confidence.t # "absent" /\ ~Numeric(item.confidence)
    \/ item.body.t # "str"
    \/ Strip(item.body.s) = <<>>

\* the finding a well-formed object stands for on the strict path
StrictFinding(item, file_path, category) ==
    [path |-> IF item.path.t = "absent" THEN file_path ELSE item.path.s,
     line |-> LineOf(item),
     side |-> IF item.side.t = "str" /\ item.side.s \in {SideNew, SideOld}
              THEN item.side.s ELSE SideNew,
     category |-> IF item.category.t = "absent" THEN category
                  ELSE item.category.s,
     confidence |-> Max(0, Min(10, ConfidenceOf(item, StrictDefaultConfidence))),
     body |-> Strip(item.body.s)]

RECURSIVE StrictFindings(_, _, _)
StrictFindings(items, file_path, category) ==
    IF items = <<>> THEN <<>>
    ELSE (IF StrictMalformed(Head(items)) THEN <<>>
          ELSE <<StrictFinding(Head(items), file_path, category)>>)
             \o StrictFindings(Tail(items), file_path, category)

NzStrict == nz.pc = "done" /\ nz.raw.parsed \in {"object", "array"}
NzFallback == nz.pc = "done" /\ nz.raw.parsed = "invalid"
NzCategory == AgentList[nz.agent].category

\* C11: no finding that _format_output returns, from the strict path or from
\* the fallback path, has a body that is empty once trimmed.
C11_NoBlankBody ==
    nz.pc = "done" =>
        \A c \in Range(nz.result.comments) : Strip(c.body) # <<>>

\* C12: on the strict path the call returns, and what it returns is the
\* findings of the well-formed objects of the response in their order, each
\* malformed element (bad line, bad confidence, missing, null or non-string
\* body, not an object) left out.
C12_MalformedSkipped ==
    NzStrict =>
        /\ nz.result.raised = "none"
        /\ nz.result.comments = StrictFindings(nz.raw.items, PathOf(1), NzCategory)

\* a candidate substring of the fallback path that fails to parse or to
\* convert: invalid JSON, or an object in it with a body field and a line or
\* confidence that is not a number or a body that is not text
FallbackConvertible(item) ==
    /\ item.line.t = "absent" \/ Numeric(item.line)
    /\ item.confidence.t = "absent" \/ Numeric(item.confidence)
    /\ item.body.t = "str"

FallbackCandidateFails(match) ==
    \/ match.parsed = "invalid"
    \/ \E i \in 1..Len(match.items) :
          /\ match.items[i].isDict
          /\ match.items[i].body.t # "absent"
          /\ ~FallbackConvertible(match.items[i])

\* the finding an object with a body stands for on the fallback path
FallbackFinding(item, file_path, category) ==
    [path |-> IF item.path.t = "absent" THEN file_path ELSE item.path.s,
     line |-> LineOf(item),
     side |-> IF item.side.t = "absent" THEN SideNew ELSE item.side.s,
     category |-> IF item.category.t = "absent" THEN category
                  ELSE item.category.s,
     confidence |-> ConfidenceOf(item, FallbackDefaultConfidence),
     body |-> Strip(item.body.s)]

\* C13: on the fallback path the call returns, and every object with a body
\* in a candidate substring that parses and converts is among the findings
\* returned, whatever the other candidates of the response are.
C13_CandidateIsolation ==
    NzFallback =>
        /\ nz.result.raised = "none"
        /\ \A m \in Range(nz.raw.matches) :
              ~FallbackCandidateFails(m) =>
                  \A item \in Range(m.items) :
                      (item.isDict /\ item.body.t # "absent") =>
                          FallbackFinding(item, PathOf(1), NzCategory)
                              \in Range(nz.result.comments)

\* C14: every finding _format_output returns, from either path, has a line
\* greater than 0 and the side "new" or "old".
C14_LineAndSideValid ==
    nz.pc = "done" =>
        \A c \in Range(nz.result.comments) :
            c.line > 0 /\ c.side \in {SideNew, SideOld}

PuParsed == pu.pc = "done" /\ pu.called

HeaderChunks == {ChunkModified, ChunkDeleted}

\* the path of the file a header chunk announces
ChunkPath(chunk) == Suffix(chunk[2], Len(OldPathPrefix))

\* A diff as git writes it: each file's header is followed by its hunks, each
\* hunk by at least one prefixed line; where is "start", "header" (a file
\* header was read), "opened" (a hunk header was read) or "body".
RECURSIVE WellFormedFrom(_, _)
WellFormedFrom(chunks, where) ==
    IF chunks = <<>> THEN where = "body"
    ELSE LET c == Head(chunks)
         IN  CASE c \in HeaderChunks ->
                      where \in {"start", "body"}
                          /\ WellFormedFrom(Tail(chunks), "header")
               [] c = ChunkHunk ->
                      where \in {"header", "body"}
                          /\ WellFormedFrom(Tail(chunks), "body")
               [] c = ChunkHeaderOnly ->
                      where \in {"header", "body"}
                          /\ WellFormedFrom(Tail(chunks), "opened")
               [] c \in {ChunkPlusPath, ChunkBlank} ->
                      where \in {"opened", "body"}
                          /\ WellFormedFrom(Tail(chunks), "body")
               [] OTHER -> FALSE

\* the paths of the changed files of a diff, in the order of the input
ChangedPaths(chunks) ==
    LET headers == SelectSeq(chunks, LAMBDA c : c \in HeaderChunks)
    IN  [i \in 1..Len(headers) |-> ChunkPath(headers[i])]

ValidDiff(chunks) ==
    /\ WellFormedFrom(chunks, "start")
    /\ \A i \in 1..Len(ChangedPaths(chunks)) :
          \A j \in 1..Len(ChangedPaths(chunks)) :
              i # j => ChangedPaths(chunks)[i] # ChangedPaths(chunks)[j]

PathsOf(files) == [i \in 1..Len(files) |-> files[i].path]

\* C16: for a valid diff of k distinct changed files, parse_unified_diff
\* returns k entries whose paths are the changed files in input order.
C16_OneEntryPerFile ==
    (PuParsed /\ ValidDiff(pu.input)) =>
        /\ pu.result.raised = "none"
        /\ PathsOf(pu.result.files) = ChangedPaths(pu.input)

\* a text of nothing but blanks and line ends
WhitespaceOnly(lines) ==
    \A i \in 1..Len(lines) : \A k \in 1..Len(lines[i]) : lines[i][k] = " "

\* C17: for an empty or whitespace-only diff parse_unified_diff raises
\* ValueError and returns nothing, and the manual and the GitHub entry
\* points answer 422 or 400 without calling the parser.
C17_BlankDiffRejected ==
    (pu.pc = "done" /\ WhitespaceOnly(Lines(pu.input))) =>
        /\ pu.result.files = <<>>
        /\ pu.via = "direct" => pu.result.raised = "ValueError"
        /\ pu.via \in {"manual", "github"} =>
              pu.status \in {"422", "400"} /\ ~pu.called

C17_Witness ==
    /\ pu.pc = "done"
    /\ pu.via = "direct"
    /\ Len(pu.input) >= 2
    /\ WhitespaceOnly(Lines(pu.input))
    /\ pu.result.raised = "ValueError"

\* a line that ends the body of a hunk: the next file or the next hunk
IsMarker(line) == StartsWith(line, DiffGitPrefix) \/ StartsWith(line, HunkPrefix)

\* the body of the hunk whose header is line i: the lines up to the next
\* marker or the end of the input
HunkBody(lines, i) ==
    LET ends == {j \in (i + 1)..Len(lines) : IsMarker(lines[j])}
        last == IF ends = {} THEN Len(lines)
                ELSE (CHOOSE j \in ends : \A k \in ends : j <= k) - 1
    IN  SubSeq(lines, i + 1, last)

\* a body with one space put before each line that has no prefix
Prefixed(body) ==
    [k \in 1..Len(body) |->
        IF \/ StartsWith(body[k], <<"+">>)
           \/ StartsWith(body[k], <<"-">>)
           \/ StartsWith(body[k], <<" ">>)
        THEN body[k] ELSE <<" ">> \o body[k]]

\* C18: the lines of every hunk of the result are the body of a hunk of the
\* input with that header, unprefixed lines carrying one prepended space.
C18_HunkBodyReproduced ==
    PuParsed =>
        \A f \in Range(pu.result.files) : \A h \in Range(f.hunks) :
            \E i \in 1..Len(Lines(pu.input)) :
                /\ HunkHeaderMatch(Lines(pu.input)[i]) = Some(h.header)
                /\ h.lines = Prefixed(HunkBody(Lines(pu.input), i))

\* C19: every file of the result has a path that a path line of the input
\* names and at least one hunk, and every hunk has a header that a line of
\* the input carries and at least one line.
C19_NothingEmptyRetained ==
    PuParsed =>
        \A f \in Range(pu.result.files) :
            /\ \E line \in Range(Lines(pu.input)) :
                  line \in {NewPathPrefix \o f.path, OldPathPrefix \o f.path}
            /\ f.hunks # <<>>
            /\ \A h \in Range(f.hunks) :
                  /\ h.header # <<>>
                  /\ \E line \in Range(Lines(pu.input)) :
                        HunkHeaderMatch(line) = Some(h.header)
                  /\ h.lines # <<>>

C19_Witness ==
    /\ PuParsed
    /\ pu.input = <<ChunkModified, ChunkHeaderOnly, ChunkDeleted, ChunkHunk>>
    /\ PathsOf(pu.result.files) = <<<<"y">>>>
    /\ Len(pu.result.files[1].hunks) = 1

\* the llm_call of the unit (reviewer a, hunk h) of the current file is awaited
UnitInFlight(a, h) == agents[a].pc = "call" /\ agents[a].hunk = h

\* the unit's pass of the hunk loop is over
UnitOver(a, h) ==
    agents[a].pc = "done" \/ (agents[a].pc = "call" /\ agents[a].hunk > h)

\* C20: while the gather of a file is awaited, every unit of work of the
\* file, each reviewer with each hunk, is in flight or already over: none
\* waits for another unit to end before its producer call is made.
C20_AllUnitsConcurrent ==
    orch.pc = "gather" =>
        \A a \in AgentIds : \A h \in 1..req.nhunks :
            UnitInFlight(a, h) \/ UnitOver(a, h)

\* C21: a reviewer is cancelled only in the step in which the armed batch
\* timeout expires, and that step answers 504; once the timeout has expired
\* the reply does not change again; in every other step of a gather at most
\* one reviewer moves, so a unit that fails or completes leaves the other
\* reviewers where they are.
C21_OnlyTimeoutCancels ==
    [][/\ (\E a \in AgentIds :
              agents[a].pc # "cancelled" /\ agents'[a].pc = "cancelled") =>
              /\ req.timer = "armed" /\ req'.timer = "expired"
              /\ req.reply.status = "pending" /\ req'.reply.status = "504"
              /\ \A a \in AgentIds : agents'[a].pc = "cancelled"
       /\ req.timer = "expired" => req' = req /\ orch' = orch /\ agents' = agents
       /\ (orch.pc = "gather" /\ orch'.pc = "gather" /\ orch'.file = orch.file) =>
              Cardinality({a \in AgentIds : agents'[a] # agents[a]}) <= 1]_vars

C21_Witness ==
    /\ req.timer = "expired"
    /\ req.reply.status = "504"
    /\ \A a \in AgentIds : agents[a].pc = "cancelled"
    /\ Len(orch.finished) = 2
    /\ \E u \in Units : UnitFails(req.scenario, u[1], u[2], u[3])

\* the identity of a finding as the lookup key is described: path, line and
\* the first 200 characters of the body, lower-cased, whitespace-normalized
\* and trimmed
NormalizedIdentity(c) ==
    <<c.path, c.line, _normalize_text(Prefix(c.body, BodyKeyLen))>>

\* C22: of the findings with the same path and line whose bodies differ only
\* in letter case or in whitespace, _deduplicate_comments returns one.
C22_WhitespaceCaseCollapsed ==
    dd.pc = "done" =>
        \A i \in 1..Len(dd.output) : \A j \in 1..Len(dd.output) :
            NormalizedIdentity(dd.output[i]) = NormalizedIdentity(dd.output[j])
                => i = j

PuLines == Lines(pu.input)

\* the parser as it stands before it reads line k of the input
Before(k) == ParseLines(pu.impl, ParserStart, SubSeq(PuLines, 1, k - 1))

\* the parser as it stands once it has read line k
After(k) == ParseLines(pu.impl, ParserStart, SubSeq(PuLines, 1, k))

HunkOpen(st) == ~st.current_hunk_header.isNone

HasDiffPrefix(line) ==
    \/ StartsWith(line, <<"+">>)
    \/ StartsWith(line, <<"-">>)
    \/ StartsWith(line, <<" ">>)

\* C23: while a hunk is open, every line that begins with '+', '-' or a space
\* is appended unchanged to the lines of that hunk, and changes nothing else.
C23_PrefixedLinesAppended ==
    PuParsed =>
        \A k \in 1..Len(PuLines) :
            (HunkOpen(Before(k)) /\ HasDiffPrefix(PuLines[k])) =>
                After(k) = [Before(k) EXCEPT
                               !.current_hunk_lines = Append(@, PuLines[k])]

\* what closing the pending hunk adds to the hunks of the current file
ClosedHunks(st) ==
    IF HunkOpen(st) /\ st.current_hunk_lines # <<>>
    THEN Append(st.current_hunks, [header |-> st.current_hunk_header.s,
                                   lines |-> st.current_hunk_lines])
    ELSE st.current_hunks

\* C24: every line that begins with @@ closes the open hunk, emitting it when
\* it has a line, and opens a new hunk with no lines whose header begins the
\* line.
C24_HeaderStartsNewHunk ==
    PuParsed =>
        \A k \in 1..Len(PuLines) :
            StartsWith(PuLines[k], HunkPrefix) =>
                /\ After(k).current_hunks = ClosedHunks(Before(k))
                /\ HunkOpen(After(k))
                /\ StartsWith(PuLines[k], After(k).current_hunk_header.s)
                /\ After(k).current_hunk_lines = <<>>

NoNewlineMarker(line) == StartsWith(line, <<"\\">>)

\* a line of a hunk that carries none of the prefixes the parser knows
Unprefixed(line) ==
    /\ ~HasDiffPrefix(line)
    /\ ~NoNewlineMarker(line)
    /\ ~IsMarker(line)

\* a line of an open hunk that is not captured leaves the parser as it was;
\* an unprefixed line that is captured is appended behind one space
ContextRule(k) ==
    IF Before(k).current_hunk_lines # <<>>
    THEN After(k) = [Before(k) EXCEPT
                        !.current_hunk_lines = Append(@, <<" ">> \o PuLines[k])]
    ELSE After(k) = Before(k)

SectionStarts ==
    {1} \cup {i \in 1..Len(PuLines) : StartsWith(PuLines[i], DiffGitPrefix)}

SectionEnd(i) ==
    LET nexts == {j \in SectionStarts : j > i}
    IN  IF nexts = {} THEN Len(PuLines)
        ELSE (CHOOSE j \in nexts : \A k \in nexts : j <= k) - 1

\* the path the markers of a section give: the text of the last new-path
\* marker, else the text of the first old-path marker
SectionPath(i) ==
    LET news == {j \in i..SectionEnd(i) : StartsWith(PuLines[j], NewPathPrefix)}
        olds == {j \in i..SectionEnd(i) : StartsWith(PuLines[j], OldPathPrefix)}
    IN  IF news # {}
        THEN Some(Suffix(PuLines[CHOOSE j \in news : \A k \in news : k <= j],
                         Len(NewPathPrefix)))
        ELSE IF olds # {}
        THEN Some(Suffix(PuLines[CHOOSE j \in olds : \A k \in olds : j <= k],
                         Len(OldPathPrefix)))
        ELSE None

FilesAtEnd(st) ==
    LET hunks == ClosedHunks(st)
    IN  IF ~st.current_file.isNone /\ hunks # <<>>
        THEN Append(st.files, [path |-> st.current_file.s, hunks |-> hunks])
        ELSE st.files

\* the files of a run of lines parsed on its own
FilesOf(lines) == FilesAtEnd(ParseLines(pu.impl, ParserStart, lines))

\* C27: a `diff --git` line and the end of the input emit the pending hunk
\* and the pending file once; after a `diff --git` line the parser holds no
\* path, no hunks and no open hunk, so the files of the whole input are the
\* files of the lines before that line followed by the files of the rest.
C27_FlushOnceAndReset ==
    PuParsed =>
        /\ pu.result.files = FilesAtEnd(Before(Len(PuLines) + 1))
        /\ \A k \in 1..Len(PuLines) :
              StartsWith(PuLines[k], DiffGitPrefix) =>
                  /\ After(k) = [ParserStart EXCEPT
                                    !.files = FilesAtEnd(Before(k))]
                  /\ pu.result.files =
                         FilesOf(SubSeq(PuLines, 1, k - 1))
                             \o FilesOf(SubSeq(PuLines, k, Len(PuLines)))

C27_Witness ==
    /\ PuParsed
    /\ pu.input = <<ChunkModified, ChunkHunk, ChunkDeleted, ChunkHunk>>
    /\ PathsOf(pu.result.files) =
           <<ChunkPath(ChunkModified), ChunkPath(ChunkDeleted)>>
    /\ \A f \in 1..2 : Len(pu.result.files[f].hunks) = 1

\* the sleeps of the call so far, as positions of the trace
Sleeps(what) ==
    {i \in 1..Len(llm.trace) :
        llm.trace[i].ev = "sleep" /\ llm.trace[i].what = what}

\* C28: the sleep before the next attempt is 2^n seconds after a 429 at attempt
\* n and n seconds after a 5xx at attempt n; within one call a later sleep of
\* the same class is longer, and a 429 sleep is at least the 5xx sleep of its
\* attempt.
C28_BackoffGrows ==
    /\ \A i \in Sleeps("status_429") :
          /\ llm.trace[i].delay = 2 ^ llm.trace[i].attempt
          /\ llm.trace[i].delay >= llm.trace[i].attempt
    /\ \A i \in Sleeps("status_5xx") :
          llm.trace[i].delay = llm.trace[i].attempt
    /\ \A what \in {"status_429", "status_5xx"} :
          \A i \in Sleeps(what) : \A j \in Sleeps(what) :
              i < j => /\ llm.trace[i].attempt < llm.trace[j].attempt
                       /\ llm.trace[i].delay < llm.trace[j].delay

C28_Witness ==
    /\ llm.pc = "raised"
    /\ Cardinality(Sleeps("status_429")) = 2
    /\ \E i \in Sleeps("status_429") : llm.trace[i].delay = 4
    /\ llm.trace[Len(llm.trace)].what = "500"

\* C29: no unit (file, reviewer, hunk) has more than one llm_call, and only
\* units whose llm_call returned text reach the normalizer; when the batch
\* returns, every unit has had its one llm_call and every unit whose llm_call
\* returned text was normalized, whatever failed before it.
C29_EachUnitOnce ==
    /\ \A u \in DOMAIN orch.llm_calls : u \in Units /\ orch.llm_calls[u] = 1
    /\ orch.format_calls \subseteq
           {u \in DOMAIN orch.llm_calls :
               ProducerEnds(req.scenario, u[1], u[2], u[3]) = "text"}
    /\ orch.pc = "returned" =>
           /\ DOMAIN orch.llm_calls = Units
           /\ orch.format_calls =
                  {u \in Units : ProducerEnds(req.scenario, u[1], u[2], u[3]) = "text"}

C29_Witness ==
    /\ orch.pc = "returned"
    /\ req.nfiles = 2
    /\ req.nhunks = 2
    /\ \E f \in 1..req.nfiles : \E a \in AgentIds :
          /\ ProducerEnds(req.scenario, f, a, 1) # "text"
          /\ <<f, a, 2>> \in orch.format_calls
          /\ orch.llm_calls[<<f, a, 1>>] = 1

\* str.split("\n")
RECURSIVE SplitNewlines(_)
SplitNewlines(s) ==
    LET breaks == {i \in 1..Len(s) : s[i] = "\n"}
    IN  IF breaks = {} THEN <<s>>
        ELSE LET i == CHOOSE b \in breaks : \A c \in breaks : b <= c
             IN  <<SubSeq(s, 1, i - 1)>> \o SplitNewlines(SubSeq(s, i + 1, Len(s)))

\* the text is a truncation marker that reports count
ReportsTruncated(text, count) ==
    LET h == Len(MarkerHead)
        t == Len(MarkerTail)
        digits == SubSeq(text, h + 1, Len(text) - t)
    IN  /\ Len(text) > h + t
        /\ SubSeq(text, 1, h) = MarkerHead
        /\ SubSeq(text, Len(text) - t + 1, Len(text)) = MarkerTail
        /\ IsDigits(digits)
        /\ StrToNat(digits) = count

\* C30: the snippet, read line by line, is the hunk header, then the first
\* min(len(lines), max_lines) lines of the hunk in their order, then the
\* truncation marker exactly when len(lines) > max_lines, reporting
\* len(lines) - max_lines.
C30_SnippetBounded ==
    sn.pc = "done" =>
        LET header == IF sn.hunk.header.isNone THEN <<>> ELSE sn.hunk.header.s
            all == IF sn.hunk.lines.isNone THEN <<>> ELSE sn.hunk.lines.s
            k == IF Len(all) < sn.max_lines THEN Len(all) ELSE sn.max_lines
            parts == SplitNewlines(sn.result)
            \* no line taken leaves one empty line behind the header
            body == IF k = 0 THEN <<<<>>>> ELSE SubSeq(all, 1, k)
            rest == SubSeq(parts, Len(body) + 2, Len(parts))
        IN  /\ Len(parts) >= Len(body) + 1
            /\ parts[1] = header
            /\ SubSeq(parts, 2, Len(body) + 1) = body
            /\ IF Len(all) > sn.max_lines
               THEN Len(rest) = 1 /\ ReportsTruncated(rest[1], Len(all) - sn.max_lines)
               ELSE rest = <<>>

C30_Witness ==
    /\ sn.pc = "done"
    /\ sn.max_lines = DefaultMaxLines
    /\ ~sn.hunk.lines.isNone
    /\ Len(sn.hunk.lines.s) = DefaultMaxLines + 1
    /\ Len(SplitNewlines(sn.result)) = DefaultMaxLines + 2
    /\ ReportsTruncated(SplitNewlines(sn.result)[DefaultMaxLines + 2], 1)

Elements(list) == {list[i] : i \in 1..Len(list)}

\* C31: a call of _deduplicate_comments leaves its argument as it was; every
\* finding it returns is a finding of the argument, field for field; and it
\* returns one finding for each distinct key of the argument.
C31_FindingsUntouched ==
    [][(dd.pc = "call" /\ dd'.pc = "done") =>
          /\ dd'.input = dd.input
          /\ Elements(dd'.output) \subseteq Elements(dd.input)
          /\ \A c \in Elements(dd.input) :
                Cardinality({i \in 1..Len(dd'.output) :
                                DedupKey(dd'.output[i]) = DedupKey(c)}) = 1
          /\ Len(dd'.output) =
                 Cardinality({DedupKey(c) : c \in Elements(dd.input)})]_vars

C31_Witness ==
    /\ dd.pc = "done"
    /\ Len(dd.input) = 3
    /\ Len(dd.output) = 2
    /\ \E i \in 1..Len(dd.output) : dd.output[i].body = <<"X", " ">>

IsPrefixOf(s, t) == Len(s) <= Len(t) /\ SubSeq(t, 1, Len(s)) = s

\* C32: the orchestrator's all_comments changes only in a step taken when
\* every reviewer of the current file is done, and then only by growing at its
\* end; a step in which a reviewer goes on changes that reviewer alone, so
\* that its list is touched by no other reviewer.
C32_AccumulatorOnlyAtJoin ==
    [][/\ orch'.all_comments # orch.all_comments =>
              /\ orch.pc = "gather"
              /\ \A a \in AgentIds : agents[a].pc = "done"
              /\ IsPrefixOf(orch.all_comments, orch'.all_comments)
       /\ \A a \in AgentIds :
              (agents[a].pc = "call" /\ agents'[a].pc \in {"call", "done"}
                  /\ agents'[a] # agents[a]) =>
                  /\ orch'.all_comments = orch.all_comments
                  /\ \A b \in AgentIds \ {a} : agents'[b] = agents[b]]_vars

C32_Witness ==
    /\ orch.pc = "gather"
    /\ orch.file = 2
    /\ orch.all_comments # <<>>
    /\ \E a \in AgentIds : \E b \in AgentIds :
          /\ agents[a].pc = "call" /\ agents[a].comments # <<>>
          /\ agents[b].pc = "done" /\ agents[b].comments # <<>>

\* C33: a call of llm_call that ends without text ends in LLMError; without
\* an API key it does so before any HTTP attempt; a call is over only with
\* text or with that error.
C33_FailuresAreLLMError ==
    /\ llm.pc = "raised" => llm.result = "LLMError"
    /\ llm.pc = "returned" => llm.result = "text"
    /\ (~llm.api_key /\ llm.pc # "enter") =>
           llm.pc = "raised" /\ llm.trace = <<>>
    /\ llm.pc \in {"raised", "returned"} => llm.result \in {"LLMError", "text"}

C33_Witness ==
    /\ llm.pc = "raised"
    /\ llm.max_retries = DefaultMaxRetries
    /\ llm.attempt = DefaultMaxRetries
    /\ llm.trace # <<>>
    /\ llm.trace[Len(llm.trace)].what = "200_bad_body"
    /\ llm.trace[1].what = "timeout"

\* C34 as stated: once run_agents_on_files awaits its first gather it
\* eventually returns.
C34_EventuallyReturns == (orch.pc = "gather") ~> (orch.pc = "returned")

\* C34 amended: a pending llm_call ends, within max_retries attempts; once
\* run_agents_on_files awaits its first gather it eventually returns or the
\* batch timeout cancels it; and when it returns it has joined every file
\* and its result is the deduplication of all that was collected.
C34_ReturnsUnlessTimeout ==
    /\ (llm.pc = "post") ~> (llm.pc \in {"returned", "raised"})
    /\ [](llm.attempt <= llm.max_retries)
    /\ (orch.pc = "gather") ~> (orch.pc = "returned" \/ req.timer = "expired")
    /\ [](orch.pc = "returned" =>
             /\ orch.file = req.nfiles
             /\ orch.result = _deduplicate_comments(orch.all_comments))

C34_Witness ==
    /\ orch.pc = "returned"
    /\ req.nfiles = 2
    /\ req.nhunks = 2
    /\ req.timer = "armed"
    /\ orch.result # <<>>
    /\ \E u \in Units : ProducerEnds(req.scenario, u[1], u[2], u[3]) = "exhausted"

\* C35: while run_agents_on_files works on file j, every unit of the files
\* before j has had its llm_call and no unit of a file behind j has; the
\* calls awaited at any moment are those of the reviewers of file j.
C35_FilesOneAfterAnother ==
    orch.pc \in {"gather", "returned"} =>
        \A u \in Units :
            /\ u[1] < orch.file => u \in DOMAIN orch.llm_calls
            /\ u \in DOMAIN orch.llm_calls => u[1] <= orch.file
            /\ (u[1] = orch.file /\ u \in DOMAIN orch.llm_calls) =>
                   \/ agents[u[2]].pc = "done"
                   \/ agents[u[2]].pc = "call" /\ u[3] < agents[u[2]].hunk

C35_Witness ==
    /\ orch.pc = "gather"
    /\ orch.file = 2
    /\ req.nhunks = 2
    /\ \E a \in AgentIds : agents[a].pc = "call" /\ agents[a].hunk = 2
    /\ \E a \in AgentIds : agents[a].pc = "call" /\ agents[a].hunk = 1
    /\ \A a \in AgentIds : \A h \in 1..2 : <<1, a, h>> \in DOMAIN orch.llm_calls

\* every unit of the batch fails: its llm_call or its normalizer raises
AllUnitsFail == \A u \in Units : UnitFails(req.scenario, u[1], u[2], u[3])

\* every unit of the batch succeeds and reports nothing
AllUnitsQuiet ==
    \A u \in Units :
        /\ ProducerEnds(req.scenario, u[1], u[2], u[3]) = "text"
        /\ HunkResult(req.scenario, u[1], u[2], u[3]) =
               [exc |-> "none", comments |-> <<>>]

\* the 200 reply of an entry point for a review without findings
EmptyReply(entry) ==
    [status |-> "200", has_comments |-> TRUE, comments |-> <<>>,
     summary |-> IF entry \in AppEntryPoints THEN "none" ELSE "no_issues"]

\* C36: a batch whose units all fail and a batch whose units all succeed
\* without findings both make run_agents_on_files return the empty list, and
\* the entry point answers both with the same 200 reply.
C36_FailureLooksLikeClean ==
    (AllUnitsFail \/ AllUnitsQuiet) =>
        /\ orch.pc = "returned" => orch.result = <<>>
        /\ req.reply.status = "200" => req.reply = EmptyReply(req.entry)

C36_Witness ==
    /\ AllUnitsFail
    /\ orch.pc = "returned"
    /\ req.nfiles = 2
    /\ req.nhunks = 2
    /\ req.entry \in RouteEntryPoints
    /\ req.reply = EmptyReply(req.entry)

\* C37: findings of the argument that differ in path or in line have
\* different keys, so that each of them has a finding of its own (path, line)
\* in the result.
C37_PathAndLineKeptApart ==
    dd.pc = "done" =>
        /\ \A c \in Elements(dd.input) : \A d \in Elements(dd.input) :
              (c.path # d.path \/ c.line # d.line) => DedupKey(c) # DedupKey(d)
        /\ \A c \in Elements(dd.input) :
              \E o \in Elements(dd.output) : o.path = c.path /\ o.line = c.line

\* the other copy of the parser
OtherImpl(impl) == IF impl = "app" THEN "routes" ELSE "app"

\* C38: the copy of parse_unified_diff in src/app.py and the copy in
\* src/routes/review.py give the same result on the same diff.
C38_ParsersAgree ==
    PuParsed => pu.result = parse_unified_diff(OtherImpl(pu.impl), PuLines)

RECURSIVE CapturedInHunks(_)
CapturedInHunks(hunks) ==
    IF hunks = <<>> THEN 0
    ELSE Len(Head(hunks).lines) + CapturedInHunks(Tail(hunks))

\* the number of lines that the hunks of the files hold
RECURSIVE CapturedLines(_)
CapturedLines(files) ==
    IF files = <<>> THEN 0
    ELSE CapturedInHunks(Head(files).hunks) + CapturedLines(Tail(files))

\* the lines of the input that a hunk can hold: those that neither begin a
\* file nor begin with @@
ContentLines(lines) == {k \in 1..Len(lines) : ~IsMarker(lines[k])}

\* C39: every line of the input is captured in at most one hunk of the
\* result and no hunk is emitted twice: the result holds no more lines than
\* the input has, and no more than the input has lines that a hunk can hold.
C39_NoLineCapturedTwice ==
    PuParsed =>
        /\ CapturedLines(pu.result.files) <= Len(PuLines)
        /\ CapturedLines(pu.result.files) <= Cardinality(ContentLines(PuLines))

====
